---- MODULE Spec2Model ----
(***************************************************************************)
(* jprofile: the column classifier (_determine_type), the four per-kind    *)
(* summarizers (_analyze_numeric, _analyze_boolean, _analyze_string,       *)
(* _analyze_datetime) and the engine (JProfile.__init__ / _analyze /       *)
(* get_profile / display_profile) of src/jprofile/core.py.                 *)
(*                                                                         *)
(* A pandas Series is a storage type (dtype) and a sequence of cells.  A   *)
(* cell is a tagged value [t, n, s]: t the Python type of the cell, n its  *)
(* numeric payload, s its text payload.  Numbers of the model are          *)
(* integers and the two float infinities; a statistic that is a quotient   *)
(* is kept exact as num/den, and arithmetic on an infinity follows         *)
(* IEEE 754 (inf - inf and inf * 0 are NaN).                               *)
(***************************************************************************)
EXTENDS Integers, Sequences, FiniteSets

VARIABLES df, results, pc, built, df0, ret, series, out

vars == <<df, results, pc, built, df0, ret, series, out>>

(***************************************************************************)
(* Bounds of the model.                                                    *)
(***************************************************************************)
\* longest column of a dataset handed to the engine
MaxLen == 2
\* longest column handed to a summarizer or the classifier on its own
MaxSeriesLen == 5
\* longest text column handed to the String summarizer on its own
MaxTextLen == 6

(***************************************************************************)
(* Cells.                                                                  *)
(***************************************************************************)
Cell(t, n, s) == [t |-> t, n |-> n, s |-> s]
\* None / NaN / NaT
Null == Cell("null", 0, "")
PyBool(b) == Cell("bool", IF b THEN 1 ELSE 0, "")
PyInt(n) == Cell("int", n, "")
PyFloat(n) == Cell("float", n, "")
\* float('inf') and float('-inf'), which are not null
Inf == Cell("float", 1, "inf")
NegInf == Cell("float", -1, "inf")
IsInf(c) == c.t = "float" /\ c.s = "inf"
PyStr(s) == Cell("str", 0, s)
Timestamp(n) == Cell("ts", n, "")
Timedelta(n) == Cell("td", n, "")

\* The values a column of each storage type holds in the model.  int64 and
\* bool storage cannot hold a null; a list of booleans with a None in it is
\* stored as object.
CellsOf(dtype) ==
  CASE dtype = "int64" -> {PyInt(0), PyInt(3)}
    [] dtype = "float64" -> {PyFloat(1), PyFloat(3), Null}
    [] dtype = "bool" -> {PyBool(TRUE), PyBool(FALSE)}
    [] dtype = "datetime64" -> {Timestamp(1), Timestamp(4), Null}
    [] dtype = "timedelta64" -> {Timedelta(1), Timedelta(4), Null}
    [] dtype = "object" -> {PyBool(TRUE), PyBool(FALSE), PyInt(1), PyStr("1"), Null}

Dtypes == {"int64", "float64", "bool", "datetime64", "timedelta64", "object"}

Series(dtype, cells) == [dtype |-> dtype, cells |-> cells]

\* the columns of n rows
ColumnsOfLen(n) ==
  UNION {{Series(d, SubSeq(c, 1, n)) : c \in [1..n -> CellsOf(d)]} : d \in Dtypes}

\* The values of a column handed to a summarizer or the classifier on its
\* own: float storage also holds the infinities.
CellsOfSeries(dtype) ==
  IF dtype = "float64" THEN CellsOf(dtype) \cup {Inf, NegInf} ELSE CellsOf(dtype)
SeriesOfLen(n) ==
  UNION {{Series(d, SubSeq(c, 1, n)) : c \in [1..n -> CellsOfSeries(d)]} : d \in Dtypes}

\* Text columns for the frequency table: each new value of the column is the
\* next unused name of TextVals (value_counts compares values for equality
\* only, so every text column is one of these up to renaming).
TextVals == <<"a", "b", "c", "d", "e", "f", "g">>

RECURSIVE Used(_)
Used(c) == IF c = <<>> THEN 0
           ELSE LET u == Used(SubSeq(c, 1, Len(c) - 1))
                    k == CHOOSE i \in 1..Len(TextVals) : TextVals[i] = c[Len(c)].s
                IN IF k > u THEN k ELSE u

RECURSIVE TextCells(_)
TextCells(n) ==
  IF n = 0 THEN {<<>>}
  ELSE LET shorter == TextCells(n - 1)
       IN shorter \cup
          UNION {{Append(q, PyStr(TextVals[k])) :
                    k \in 1..(IF Used(q) < Len(TextVals) THEN Used(q) + 1 ELSE Used(q))} :
                 q \in {p \in shorter : Len(p) = n - 1}}

TextColumns == {Series("object", c) : c \in TextCells(MaxTextLen)}

(***************************************************************************)
(* Numbers, and the absence value None.  A number is num/den with a        *)
(* positive den; 1/0 is inf, -1/0 is -inf and 0/0 is NaN.                  *)
(***************************************************************************)
Some(n, d) == [some |-> TRUE, num |-> n, den |-> d]
None == [some |-> FALSE, num |-> 0, den |-> 1]
\* float('nan'), which is a number and not None
NaN == Some(0, 0)
IsNaN(x) == x.num = 0 /\ x.den = 0
\* x <= y and x == y of Python: false as soon as one side is NaN
NumLe(x, y) ==
  /\ ~IsNaN(x)
  /\ ~IsNaN(y)
  /\ IF x.den = 0 /\ y.den = 0 THEN x.num <= y.num
     ELSE x.num * y.den <= y.num * x.den
NumEq(x, y) == NumLe(x, y) /\ NumLe(y, x)
\* x + y: inf + -inf is NaN
Add(x, y) ==
  IF IsNaN(x) \/ IsNaN(y) THEN NaN
  ELSE IF x.den = 0 /\ y.den = 0 THEN (IF x.num = y.num THEN x ELSE NaN)
  ELSE IF x.den = 0 THEN x
  ELSE IF y.den = 0 THEN y
  ELSE Some(x.num * y.den + y.num * x.den, x.den * y.den)
\* x - y: inf - inf is NaN
Sub(x, y) == Add(x, Some(0 - y.num, y.den))
\* x * (k/d) for k >= 0 and d > 0: inf * 0 is NaN
Scale(x, k, d) ==
  IF x.den = 0 THEN (IF x.num = 0 \/ k = 0 THEN NaN ELSE x)
  ELSE Some(x.num * k, x.den * d)

(***************************************************************************)
(* The pandas primitives the code composes.                                *)
(***************************************************************************)
\* pd.api.types.is_numeric_dtype: integer, float and bool storage are numeric;
\* datetime64, timedelta64 and object storage are not.
is_numeric_dtype(s) == s.dtype \in {"int64", "float64", "bool"}
\* pd.api.types.is_bool_dtype
is_bool_dtype(s) == s.dtype = "bool"
\* pd.api.types.is_datetime64_dtype: true of datetime64 storage only
is_datetime64_dtype(s) == s.dtype = "datetime64"

isna(c) == c.t = "null"
notna(c) == c.t # "null"
\* series.isna().sum()
isna_sum(s) == Len(SelectSeq(s.cells, isna))
\* series.dropna()
dropna(s) == Series(s.dtype, SelectSeq(s.cells, notna))
empty(s) == Len(s.cells) = 0
\* series.unique() as a set
unique(s) == {s.cells[i] : i \in 1..Len(s.cells)}
\* series.nunique() taken for the number of rows
nunique_rows(s) == Len(s.cells)
\* series.nunique()
nunique(s) == Cardinality(unique(s))

\* bool(x) of a number: zero is False, anything else True
ToBool(c) == PyBool(c.n # 0)
\* series.astype(bool)
astype_bool(s) == Series("bool", [i \in 1..Len(s.cells) |-> ToBool(s.cells[i])])

\* str(x)
StrOf(c) ==
  CASE c.t = "str" -> c.s
    [] c.t = "bool" -> IF c.n = 1 THEN "True" ELSE "False"
    [] c.t = "int" -> (CASE c.n = 0 -> "0" [] c.n = 1 -> "1" [] c.n = 3 -> "3")
    [] c.t = "float" -> (CASE IsInf(c) -> (IF c.n > 0 THEN "inf" ELSE "-inf")
                           [] c.n = 0 -> "0.0" [] c.n = 1 -> "1.0" [] c.n = 3 -> "3.0")
    [] c.t = "ts" -> (CASE c.n = 1 -> "1970-01-02" [] c.n = 4 -> "1970-01-05")
    [] c.t = "td" -> (CASE c.n = 1 -> "1 days" [] c.n = 4 -> "4 days")
ToStr(c) == PyStr(StrOf(c))
\* series.astype(str)
astype_str(s) == Series("object", [i \in 1..Len(s.cells) |-> ToStr(s.cells[i])])

\* len(text)
StrLen(t) ==
  CASE t = "" -> 0
    [] t \in {"0", "1", "3", "a", "b", "c", "d", "e", "f", "g"} -> 1
    [] t \in {"0.0", "1.0", "3.0", "inf"} -> 3
    [] t \in {"True", "-inf"} -> 4
    [] t = "False" -> 5
    [] t \in {"1 days", "4 days"} -> 6
    [] t \in {"1970-01-02", "1970-01-05"} -> 10

\* the number a cell holds
Val(c) == IF IsInf(c) THEN Some(c.n, 0) ELSE Some(c.n, 1)

RECURSIVE SumN(_)
SumN(cells) == IF cells = <<>> THEN 0 ELSE cells[1].n + SumN(Tail(cells))
RECURSIVE SumSq(_)
SumSq(cells) == IF cells = <<>> THEN 0 ELSE cells[1].n * cells[1].n + SumSq(Tail(cells))
RECURSIVE SumVal(_)
SumVal(cells) == IF cells = <<>> THEN Some(0, 1) ELSE Add(Val(cells[1]), SumVal(Tail(cells)))

RECURSIVE Insert(_, _)
Insert(x, sorted) ==
  IF sorted = <<>> THEN <<x>>
  ELSE IF NumLe(x, sorted[1]) THEN <<x>> \o sorted
  ELSE <<sorted[1]>> \o Insert(x, Tail(sorted))
RECURSIVE SortN(_)
\* the values in ascending order
SortN(cells) == IF cells = <<>> THEN <<>> ELSE Insert(Val(cells[1]), SortN(Tail(cells)))

\* series.min(), series.max(), series.sum(), series.mean() of a non-empty series
min(s) == SortN(s.cells)[1]
max(s) == SortN(s.cells)[Len(s.cells)]
sum(s) == SumVal(s.cells)
mean(s) == Scale(sum(s), 1, Len(s.cells))
\* series.median(): the middle value, or the mean of the two middle values
median(s) ==
  LET a == SortN(s.cells)
      n == Len(a)
  IN IF n % 2 = 1 THEN a[(n + 1) \div 2]
     ELSE Scale(Add(a[n \div 2], a[n \div 2 + 1]), 1, 2)
\* numpy's interpolation a + (b - a) * t, taken from b when t >= 1/2
lerp(a, b, r) ==
  LET diff_b_a == Sub(b, a)
  IN IF 2 * r >= 4 THEN Sub(b, Scale(diff_b_a, 4 - r, 4))
     ELSE Add(a, Scale(diff_b_a, r, 4))
\* series.quantile(k/4) interpolating between the values in column order
quantile_unsorted(s, k) ==
  LET a == [i \in 1..Len(s.cells) |-> Val(s.cells[i])]
      n == Len(a)
      lo == ((n - 1) * k) \div 4 + 1
      r == ((n - 1) * k) % 4
      hi == IF lo < n THEN lo + 1 ELSE n
  IN lerp(a[lo], a[hi], r)
\* series.quantile(k/4), linear interpolation between order statistics:
\* position (n-1)*k/4, the fraction (n-1)*k mod 4 over 4
quantile(s, k) ==
  LET a == SortN(s.cells)
      n == Len(a)
      lo == ((n - 1) * k) \div 4 + 1
      r == ((n - 1) * k) % 4
      hi == IF lo < n THEN lo + 1 ELSE n
  IN lerp(a[lo], a[hi], r)
\* series.var(): sample variance, NaN for fewer than two values and for
\* values with an infinity among them
var(s) ==
  LET n == Len(s.cells)
  IN IF n < 2 \/ \E i \in 1..n : IsInf(s.cells[i]) THEN NaN
     ELSE Some(n * SumSq(s.cells) - SumN(s.cells) * SumN(s.cells), n * (n - 1))

\* series.std(): the square root of series.var(), kept as its radicand
std(s) == [sqrt_of |-> var(s)]

\* how often value v occurs
Count(v, cells) == Cardinality({i \in 1..Len(cells) : cells[i] = v})

RECURSIVE Orders(_, _)
\* every listing of the values S by descending count
Orders(S, cells) ==
  IF S = {} THEN {<<>>}
  ELSE LET top == {x \in S : \A y \in S : Count(y, cells) <= Count(x, cells)}
       IN UNION {{<<[value |-> x.s, count |-> Count(x, cells)]>> \o o :
                    o \in Orders(S \ {x}, cells)} : x \in top}

\* series.value_counts(): the distinct values with their counts, sorted by
\* descending count.  pandas sorts the counts with a sort that is not stable
\* and documents no order among equal counts, so every order of the values
\* of equal count is a possible result.
value_counts(s) == Orders(unique(s), s.cells)

\* .head(5)
HeadN == 5
\* the whole table, no .head(5)
head_all(q) == q
head(q) == SubSeq(q, 1, IF Len(q) < HeadN THEN Len(q) ELSE HeadN)

(***************************************************************************)
(* JProfile._determine_type                                                *)
(***************************************************************************)
\* the classifier without its test for an empty or all-null column
_determine_type_unguarded(s) ==
  IF is_numeric_dtype(s)
  THEN LET unique_vals == unique(dropna(s))
       IN IF \A v \in unique_vals : ~IsInf(v) /\ v.n \in {0, 1}
          THEN "boolean"
          ELSE "numeric"
  ELSE IF is_bool_dtype(s) THEN "boolean"
  ELSE IF is_datetime64_dtype(s) THEN "datetime"
  ELSE "string"

_determine_type(s) ==
  IF empty(s) \/ isna_sum(s) = Len(s.cells) THEN "string"
  ELSE IF is_numeric_dtype(s)
       THEN LET unique_vals == unique(dropna(s))
            IN IF \A v \in unique_vals : ~IsInf(v) /\ v.n \in {0, 1}
               THEN "boolean"
               ELSE "numeric"
  ELSE IF is_bool_dtype(s) THEN "boolean"
  ELSE IF is_datetime64_dtype(s) THEN "datetime"
  ELSE "string"

(***************************************************************************)
(* JProfile._analyze_numeric                                               *)
(***************************************************************************)
\* the share of nulls as a fraction, not times 100
null_percentage_ratio(null_count, total_count) ==
  IF total_count > 0 THEN Some(null_count, total_count) ELSE Some(0, 1)
null_percentage(null_count, total_count) ==
  IF total_count > 0 THEN Some(null_count * 100, total_count) ELSE Some(0, 1)

_analyze_numeric(s) ==
  LET total_count == Len(s.cells)
      null_count == isna_sum(s)
      non_null == dropna(s)
      unique_count == nunique(non_null)
      duplicate_count == Len(non_null.cells) - unique_count
      some == ~empty(non_null)
  IN [type |-> "numeric",
      count |-> Len(non_null.cells),
      null_count |-> null_count,
      null_percentage |-> null_percentage(null_count, total_count),
      unique_count |-> unique_count,
      duplicate_count |-> duplicate_count,
      min |-> IF some THEN min(non_null) ELSE None,
      max |-> IF some THEN max(non_null) ELSE None,
      mean |-> IF some THEN mean(non_null) ELSE None,
      median |-> IF some THEN median(non_null) ELSE None,
      std |-> IF some THEN std(non_null) ELSE [sqrt_of |-> None],
      variance |-> IF some THEN var(non_null) ELSE None,
      q1 |-> IF some THEN quantile(non_null, 1) ELSE None,
      q3 |-> IF some THEN quantile(non_null, 3) ELSE None,
      iqr |-> IF some THEN Sub(quantile(non_null, 3), quantile(non_null, 1)) ELSE None,
      sum |-> IF some THEN sum(non_null) ELSE None,
      range |-> IF some /\ Len(non_null.cells) > 1
                THEN Sub(max(non_null), min(non_null)) ELSE None]

(***************************************************************************)
(* JProfile._analyze_boolean                                               *)
(***************************************************************************)
\* the numeric summarizer's convention: None when there is nothing to count
percentage_or_none(part, whole) == IF whole > 0 THEN Some(part * 100, whole) ELSE None
percentage(part, whole) == IF whole > 0 THEN Some(part * 100, whole) ELSE Some(0, 1)

_analyze_boolean(s) ==
  LET total_count == Len(s.cells)
      null_count == isna_sum(s)
      dropped == dropna(s)
      non_null == IF is_numeric_dtype(s) THEN astype_bool(dropped) ELSE dropped
      \* the sum of booleans is an integer
      true_count == sum(non_null).num
      false_count == Len(non_null.cells) - true_count
      unique_count == nunique(non_null)
      duplicate_count == Len(non_null.cells) - unique_count
  IN [type |-> "boolean",
      count |-> Len(non_null.cells),
      null_count |-> null_count,
      null_percentage |-> null_percentage(null_count, total_count),
      unique_count |-> unique_count,
      duplicate_count |-> duplicate_count,
      true_count |-> true_count,
      false_count |-> false_count,
      true_percentage |-> percentage(true_count, Len(non_null.cells)),
      false_percentage |-> percentage(false_count, Len(non_null.cells))]

(***************************************************************************)
(* JProfile._analyze_string; vc is what value_counts() returned            *)
(***************************************************************************)
RECURSIVE Lengths(_)
\* non_null.str.len()
Lengths(cells) ==
  IF cells = <<>> THEN <<>>
  ELSE <<PyInt(StrLen(cells[1].s))>> \o Lengths(Tail(cells))

IsEmptyStr(c) == c.s = ""

_analyze_string(s, vc) ==
  LET total_count == Len(s.cells)
      null_count == isna_sum(s)
      non_null == astype_str(dropna(s))
      empty_count == Len(SelectSeq(non_null.cells, IsEmptyStr))
      some == ~empty(non_null)
      lengths == Series("int64", Lengths(non_null.cells))
      unique_count == nunique(non_null)
      duplicate_count == Len(non_null.cells) - unique_count
      top_values == IF some THEN head(vc) ELSE <<>>
  IN [type |-> "string",
      count |-> Len(non_null.cells),
      null_count |-> null_count,
      null_percentage |-> null_percentage(null_count, total_count),
      empty_count |-> empty_count,
      unique_count |-> unique_count,
      duplicate_count |-> duplicate_count,
      min_length |-> IF some THEN min(lengths) ELSE None,
      max_length |-> IF some THEN max(lengths) ELSE None,
      mean_length |-> IF some THEN mean(lengths) ELSE None,
      top_frequencies |-> top_values]

(***************************************************************************)
(* JProfile._analyze_datetime                                              *)
(***************************************************************************)
_analyze_datetime(s) ==
  LET total_count == Len(s.cells)
      null_count == isna_sum(s)
      non_null == dropna(s)
      unique_count == nunique(non_null)
      duplicate_count == Len(non_null.cells) - unique_count
      some == ~empty(non_null)
      base == [type |-> "datetime",
               count |-> Len(non_null.cells),
               null_count |-> null_count,
               null_percentage |-> null_percentage(null_count, total_count),
               unique_count |-> unique_count,
               duplicate_count |-> duplicate_count,
               min |-> IF some THEN min(non_null) ELSE None,
               max |-> IF some THEN max(non_null) ELSE None,
               range |-> IF some /\ Len(non_null.cells) > 1
                         THEN Sub(max(non_null), min(non_null)) ELSE None]
  IN IF some /\ non_null.cells[1].t = "td"
     THEN [k \in DOMAIN base \cup {"mean", "median"} |->
             IF k = "mean" THEN mean(non_null)
             ELSE IF k = "median" THEN median(non_null)
             ELSE base[k]]
     ELSE base

(***************************************************************************)
(* A dict, in insertion order: a sequence of (key, value) items.           *)
(***************************************************************************)
HasKey(d, k) == \E i \in 1..Len(d) : d[i].column = k
Get(d, k) == d[CHOOSE i \in 1..Len(d) : d[i].column = k].stats
\* d[k] = v: a new key goes last, an old key keeps its place
DictSet(d, k, v) ==
  IF HasKey(d, k)
  THEN [i \in 1..Len(d) |-> IF d[i].column = k THEN [column |-> k, stats |-> v] ELSE d[i]]
  ELSE Append(d, [column |-> k, stats |-> v])
\* del d[k]
DictDel(d, k) == SelectSeq(d, LAMBDA item : item.column # k)

(***************************************************************************)
(* A DataFrame: the column names in order, and the Series of each name.    *)
(* All columns of a frame have the same number of rows.                    *)
(***************************************************************************)
Frame(names, data) == [columns |-> names, data |-> data]
NRows(frame) == IF frame.columns = <<>> THEN 0 ELSE Len(frame.data[frame.columns[1]].cells)

\* the value_counts() result the String summarizer gets for a column
vc_of(s) == value_counts(astype_str(dropna(s)))

(***************************************************************************)
(* JProfile._analyze: vcs[i] is what value_counts() returns while column i *)
(* is summarized (read by the String summarizer only)                      *)
(***************************************************************************)
\* the dispatch without its datetime branch
_analyze_column_no_datetime(res, column, col_data, vc) ==
  LET col_type == _determine_type(col_data)
  IN CASE col_type = "numeric" -> DictSet(res, column, _analyze_numeric(col_data))
       [] col_type = "boolean" -> DictSet(res, column, _analyze_boolean(col_data))
       [] col_type = "string" -> DictSet(res, column, _analyze_string(col_data, vc))
       [] OTHER -> res

_analyze_column(res, column, col_data, vc) ==
  LET col_type == _determine_type(col_data)
  IN CASE col_type = "numeric" -> DictSet(res, column, _analyze_numeric(col_data))
       [] col_type = "boolean" -> DictSet(res, column, _analyze_boolean(col_data))
       [] col_type = "string" -> DictSet(res, column, _analyze_string(col_data, vc))
       [] col_type = "datetime" -> DictSet(res, column, _analyze_datetime(col_data))
       [] OTHER -> res

RECURSIVE _analyze_from(_, _, _, _)
_analyze_from(frame, vcs, i, res) ==
  IF i > Len(frame.columns) THEN res
  ELSE LET column == frame.columns[i]
       IN _analyze_from(frame, vcs, i + 1,
                        _analyze_column(res, column, frame.data[column], vcs[i]))

_analyze(frame, vcs) == _analyze_from(frame, vcs, 1, <<>>)

RECURSIVE VcChoices(_, _)
\* the value_counts() results the run over the first n columns can get
VcChoices(frame, n) ==
  IF n = 0 THEN {<<>>}
  ELSE LET s == frame.data[frame.columns[n]]
           last == IF _determine_type(s) = "string" THEN vc_of(s) ELSE {<<>>}
       IN {Append(q, v) : q \in VcChoices(frame, n - 1), v \in last}

(***************************************************************************)
(* The datasets a caller hands to the constructor.                         *)
(***************************************************************************)
NameLists == {<<>>, <<"a">>, <<"b", "a">>}

\* df is a dataset of up to MaxLen rows, its columns named by one of NameLists
IsDataset(frame) ==
  \E names \in NameLists, n \in 0..MaxLen :
    \E data \in [{names[i] : i \in 1..Len(names)} -> ColumnsOfLen(n)] :
      frame = Frame(names, data)

NoFrame == Frame(<<>>, <<>>)
NoSeries == Series("object", <<>>)
NoReturn == [called |-> FALSE, value |-> <<>>]
NoOut == [fn |-> "none", val |-> <<>>]

(***************************************************************************)
(* The engine: a caller builds a dataset, constructs the profiler on it,   *)
(* then calls get_profile and display_profile, changes the dataset, and    *)
(* changes the mapping get_profile handed out.                             *)
(***************************************************************************)
Init ==
  /\ IsDataset(df)
  /\ results = <<>>
  /\ pc = "new"
  /\ built = <<>>
  /\ df0 = NoFrame
  /\ ret = NoReturn
  /\ series = NoSeries
  /\ out = NoOut

\* JProfile.__init__: self.df = df; self.results = {}; self._analyze().
\* built and df0 record the Profile as computed and the dataset as it was.
JProfile__init__ ==
  /\ pc = "new"
  /\ \E vcs \in VcChoices(df, Len(df.columns)) :
       /\ results' = _analyze(df, vcs)
       /\ built' = results'
  /\ df0' = df
  /\ pc' = "ready"
  /\ UNCHANGED <<df, ret, series, out>>

\* JProfile.get_profile: returns self.results itself, not a copy
get_profile ==
  /\ pc = "ready"
  /\ ret' = [called |-> TRUE, value |-> results]
  /\ UNCHANGED <<df, results, pc, built, df0, series, out>>

\* what display_profile prints: a header per record, then its other keys
Rendered(res) ==
  [i \in 1..Len(res) |->
     [header |-> <<res[i].column, res[i].stats.type>>,
      lines |-> DOMAIN res[i].stats \ {"type"}]]

\* JProfile.display_profile: prints, and assigns nothing
display_profile ==
  /\ pc = "ready"
  /\ Len(Rendered(results)) = Len(results)
  /\ UNCHANGED vars

\* the caller drops the rows of the dataset it constructed the profiler on
\* (df.drop(df.index, inplace=True)); self.df is that same object
MutateDataset ==
  /\ pc = "ready"
  /\ NRows(df) > 0
  /\ df' = Frame(df.columns, [c \in DOMAIN df.data |-> Series(df.data[c].dtype, <<>>)])
  /\ UNCHANGED <<results, pc, built, df0, ret, series, out>>

\* the caller deletes a key of the mapping get_profile returned
\* (del profile[column]); that mapping is self.results
CallerDelete ==
  /\ pc = "ready"
  /\ ret.called
  /\ \E i \in 1..Len(results) : results' = DictDel(results, results[i].column)
  /\ UNCHANGED <<df, pc, built, df0, ret, series, out>>

Next ==
  \/ JProfile__init__
  \/ get_profile
  \/ display_profile
  \/ MutateDataset
  \/ CallerDelete

Spec == Init /\ [][Next]_vars

(***************************************************************************)
(* The classifier and the summarizers, each called on one column.          *)
(***************************************************************************)
InitUnit ==
  /\ \/ series \in TextColumns
     \/ \E n \in 0..MaxSeriesLen : series \in SeriesOfLen(n)
  /\ out = NoOut
  /\ df = NoFrame
  /\ results = <<>>
  /\ pc = "unit"
  /\ built = <<>>
  /\ df0 = NoFrame
  /\ ret = NoReturn

Returns(fn, val) ==
  /\ pc = "unit"
  /\ out = NoOut
  /\ out' = [fn |-> fn, val |-> val]
  /\ UNCHANGED <<df, results, pc, built, df0, ret, series>>

call_determine_type ==
  /\ pc = "unit"
  /\ Returns("_determine_type", _determine_type(series))

\* quantile() needs numbers
call_analyze_numeric ==
  /\ pc = "unit"
  /\ series.dtype \in {"int64", "float64"}
  /\ Returns("_analyze_numeric", _analyze_numeric(series))

\* sum() of the values needs numbers or booleans
call_analyze_boolean ==
  /\ pc = "unit"
  /\ is_numeric_dtype(series)
  /\ Returns("_analyze_boolean", _analyze_boolean(series))

call_analyze_string ==
  /\ pc = "unit"
  /\ out = NoOut
  /\ \E vc \in vc_of(series) : Returns("_analyze_string", _analyze_string(series, vc))

\* max() - min() needs timestamps or durations
call_analyze_datetime ==
  /\ pc = "unit"
  /\ series.dtype \in {"datetime64", "timedelta64"}
  /\ Returns("_analyze_datetime", _analyze_datetime(series))

NextUnit ==
  \/ call_determine_type
  \/ call_analyze_numeric
  \/ call_analyze_boolean
  \/ call_analyze_string
  \/ call_analyze_datetime

SpecUnit == InitUnit /\ [][NextUnit]_vars

(***************************************************************************)
(* What the claims speak of, stated on the column itself.                  *)
(***************************************************************************)
NonNull(s) == {i \in 1..Len(s.cells) : s.cells[i] # Null}
NullCount(s) == Len(s.cells) - Cardinality(NonNull(s))
\* the raw values of the non-null cells: cells of different types are
\* different values, the number 1 is not the text '1'
RawValues(s) == {s.cells[i] : i \in NonNull(s)}
\* the texts of the non-null cells, in column order
Texts(s) == LET nn == SelectSeq(s.cells, LAMBDA c : c # Null)
            IN [i \in 1..Len(nn) |-> StrOf(nn[i])]
TextSet(s) == {Texts(s)[i] : i \in 1..Len(Texts(s))}
Occurrences(t, texts) == Cardinality({i \in 1..Len(texts) : texts[i] = t})
FirstSeen(t, texts) == CHOOSE i \in 1..Len(texts) :
                         texts[i] = t /\ \A j \in 1..(i - 1) : texts[j] # t
AnalyzeFns == {"_analyze_numeric", "_analyze_boolean", "_analyze_string", "_analyze_datetime"}
Summarized == out.fn \in AnalyzeFns
\* the summarizer the engine picks for a kind
SummarizerOf(kind) ==
  CASE kind = "numeric" -> "_analyze_numeric"
    [] kind = "boolean" -> "_analyze_boolean"
    [] kind = "string" -> "_analyze_string"
    [] kind = "datetime" -> "_analyze_datetime"
\* the record is the one the engine computes for the column
Dispatched == Summarized /\ out.fn = SummarizerOf(_determine_type(series))

(***************************************************************************)
(* C1                                                                      *)
(***************************************************************************)
ClaimedKind(s) ==
  LET vals == {s.cells[i] : i \in NonNull(s)}
  IN IF vals = {} THEN "string"
     ELSE IF s.dtype \in {"int64", "float64"}
          THEN IF vals \subseteq {PyInt(0), PyInt(1), PyFloat(0), PyFloat(1)}
               THEN "boolean" ELSE "numeric"
     ELSE IF s.dtype = "bool" THEN "boolean"
     ELSE IF s.dtype = "datetime64" THEN "datetime"
     ELSE "string"

BoolsWithNulls(s) ==
  /\ NonNull(s) # {}
  /\ NullCount(s) >= 1
  /\ \A i \in NonNull(s) : s.cells[i].t = "bool"

\* C2: a column whose non-null cells are all True/False and which holds at
\* least one null is profiled as Boolean: type Boolean, null_count the
\* number of nulls, true_count and false_count the numbers of True and False
\* cells, true_percentage = true_count / non-null count * 100.
C2_BooleanWithNulls ==
  pc = "ready" =>
    \A i \in 1..Len(df0.columns) :
      LET s == df0.data[df0.columns[i]]
          r == Get(built, df0.columns[i])
          trues == Cardinality({j \in NonNull(s) : s.cells[j] = PyBool(TRUE)})
          falses == Cardinality({j \in NonNull(s) : s.cells[j] = PyBool(FALSE)})
      IN BoolsWithNulls(s) =>
           /\ r.type = "boolean"
           /\ r.null_count = NullCount(s)
           /\ r.true_count = trues
           /\ r.false_count = falses
           /\ NumEq(r.true_percentage, Some(trues * 100, trues + falses))

(***************************************************************************)
(* C3                                                                      *)
(***************************************************************************)
\* C3: in every kind's record null_count + count = N, the column's length
\* with its nulls, and null_percentage = null_count / N * 100, which is 0
\* when N = 0.
C3_NullAccounting ==
  Summarized =>
    LET r == out.val
        N == Len(series.cells)
    IN /\ r.null_count = NullCount(series)
       /\ r.count = Cardinality(NonNull(series))
       /\ r.null_count + r.count = N
       /\ r.null_percentage.some
       /\ r.null_percentage.den > 0
       /\ IF N = 0 THEN r.null_percentage.num = 0
          ELSE r.null_percentage.num * N = NullCount(series) * 100 * r.null_percentage.den

\* a column with nulls and values among them has been summarized
C3_Witness ==
  /\ out.fn = "_analyze_datetime"
  /\ out.val.null_count = 1
  /\ out.val.count = 2
  /\ NumEq(out.val.null_percentage, Some(100, 3))

(***************************************************************************)
(* C4                                                                      *)
(***************************************************************************)
\* C4 as claimed: in every kind unique_count is the number of distinct raw
\* values of the non-null cells, before any coercion, and duplicate_count =
\* non-null count - unique_count.
C4_UniqueOfRawValues ==
  Dispatched =>
    /\ out.val.unique_count = Cardinality(RawValues(series))
    /\ out.val.duplicate_count = Cardinality(NonNull(series)) - out.val.unique_count

\* C4 as amended: unique_count is the number of distinct values of the
\* non-null cells, which for a String-kind column are their texts (str) and
\* for the other kinds the raw values; duplicate_count = non-null count -
\* unique_count, so the two sum to the non-null count.
C4_UniqueAfterCoercion ==
  Dispatched =>
    /\ out.val.unique_count =
         IF out.fn = "_analyze_string" THEN Cardinality(TextSet(series))
         ELSE Cardinality(RawValues(series))
    /\ out.val.duplicate_count = Cardinality(NonNull(series)) - out.val.unique_count
    /\ out.val.unique_count + out.val.duplicate_count = out.val.count

\* the number 1 and the text '1' in one String-kind column count once
C4_Witness ==
  /\ Dispatched
  /\ out.fn = "_analyze_string"
  /\ series.cells = <<PyInt(1), PyStr("1")>>
  /\ out.val.unique_count = 1
  /\ out.val.duplicate_count = 1

(***************************************************************************)
(* C5                                                                      *)
(***************************************************************************)
\* the order of the quartiles and the rule of the range in a numeric record
QuartileRule(r) ==
  /\ r.count >= 1 =>
       /\ r.min.some /\ r.q1.some /\ r.median.some /\ r.q3.some /\ r.max.some
       /\ NumLe(r.min, r.q1)
       /\ NumLe(r.q1, r.median)
       /\ NumLe(r.median, r.q3)
       /\ NumLe(r.q3, r.max)
       /\ r.iqr.some
       /\ NumEq(r.iqr, Sub(r.q3, r.q1))
       /\ NumLe(Some(0, 1), r.iqr)
  /\ r.count >= 2 => r.range.some /\ NumEq(r.range, Sub(r.max, r.min))
  /\ r.count < 2 => r.range = None

\* no inf and no -inf among the values of the column
AllFinite(s) == \A i \in 1..Len(s.cells) : ~IsInf(s.cells[i])

\* C5 as stated: a numeric record of at least one value has min <= q1 <=
\* median <= q3 <= max and iqr = q3 - q1 >= 0; range = max - min when there
\* are at least 2 values, and None when there are fewer.
C5_QuartileOrder ==
  out.fn = "_analyze_numeric" => QuartileRule(out.val)

\* C5: a numeric record of at least one value, all values finite, has
\* min <= q1 <= median <= q3 <= max and iqr = q3 - q1 >= 0; range = max - min
\* when there are at least 2 values, and None when there are fewer, whatever
\* the values.
C5_FiniteQuartileOrder ==
  out.fn = "_analyze_numeric" =>
    /\ AllFinite(series) => QuartileRule(out.val)
    /\ out.val.count < 2 => out.val.range = None

\* two values: the quartiles and the median lie strictly between them
C5_Witness ==
  /\ out.fn = "_analyze_numeric"
  /\ out.val.count = 2
  /\ ~NumLe(out.val.q1, out.val.min)
  /\ ~NumLe(out.val.median, out.val.q1)
  /\ ~NumLe(out.val.q3, out.val.median)
  /\ ~NumLe(out.val.max, out.val.q3)
  /\ out.val.range = Some(3, 1)

TopFiveOf(tf, texts, distinct) ==
  /\ Len(tf) = (IF Cardinality(distinct) < 5 THEN Cardinality(distinct) ELSE 5)
  /\ \A i \in 1..Len(tf) :
       /\ tf[i].value \in distinct
       /\ tf[i].count = Occurrences(tf[i].value, texts)
       /\ tf[i].count <= Len(texts)
  /\ \A i, j \in 1..Len(tf) :
       i < j => tf[i].value # tf[j].value /\ tf[i].count >= tf[j].count
  /\ \A t \in distinct \ {tf[i].value : i \in 1..Len(tf)} :
       \A i \in 1..Len(tf) : Occurrences(t, texts) <= tf[i].count

C8_OneRecordPerColumn ==
  pc = "ready" =>
    /\ Len(built) = Len(df0.columns)
    /\ \A i \in 1..Len(built) :
         /\ built[i].column = df0.columns[i]
         /\ built[i].stats.type = _determine_type(df0.data[df0.columns[i]])
         /\ built[i].stats.type \in {"numeric", "boolean", "string", "datetime"}

\* two columns of different kinds, one of them all null, both in the Profile
C8_Witness ==
  /\ pc = "ready"
  /\ df0.columns = <<"b", "a">>
  /\ NRows(df0) = 2
  /\ NonNull(df0.data["b"]) = {}
  /\ Len(built) = 2
  /\ built[1].column = "b"
  /\ built[1].stats.type = "string"
  /\ built[2].stats.type = "datetime"

(***************************************************************************)
(* C9                                                                      *)
(***************************************************************************)
\* C9: whatever get_profile and display_profile calls, changes of the
\* dataset and changes a caller makes to a Profile get_profile returned,
\* every get_profile call returns the Profile computed at construction.
C9_ProfileImmutable == ret.called => ret.value = built

(***************************************************************************)
(* C10                                                                     *)
(***************************************************************************)
RangeRule(s, r) ==
  LET vals == {s.cells[i].n : i \in NonNull(s)}
      hi == CHOOSE x \in vals : \A y \in vals : y <= x
      lo == CHOOSE x \in vals : \A y \in vals : x <= y
  IN IF Cardinality(NonNull(s)) >= 2 THEN r.range = Some(hi - lo, 1) ELSE r.range = None

\* C10: in the Profile a duration column with a non-null value has a
\* Datetime record that also holds mean and median, a timestamp column has a
\* Datetime record holding neither; in both range = max - min with at least
\* 2 non-null values and None otherwise.
C10_DurationColumns ==
  pc = "ready" =>
    \A i \in 1..Len(df0.columns) :
      LET s == df0.data[df0.columns[i]]
          r == Get(built, df0.columns[i])
      IN /\ (s.dtype = "timedelta64" /\ NonNull(s) # {}) =>
              /\ r.type = "datetime"
              /\ {"mean", "median"} \subseteq DOMAIN r
              /\ RangeRule(s, r)
         /\ (s.dtype = "datetime64" /\ NonNull(s) # {}) =>
              /\ r.type = "datetime"
              /\ {"mean", "median"} \cap DOMAIN r = {}
              /\ RangeRule(s, r)

====
